---- MODULE Spec2Model ----
(***************************************************************************)
(* State-machine model of src/components/MapView.tsx: a React component    *)
(* that reconciles declarative props with an imperative Leaflet map.       *)
(*                                                                         *)
(* One action is one event-loop task: a commit of new props (the render    *)
(* plus every effect cleanup and effect body it triggers, in React's       *)
(* order), a map/marker event handler, a timer callback, or the            *)
(* continuation of fetchRoute after its await.                             *)
(*                                                                         *)
(* Objects handed in as props (stations, locations, handlers) are          *)
(* represented by small integers; 0 stands for null/undefined.  A prop     *)
(* value stands for one object, so "changed" means a different integer,    *)
(* except for the station list, which is a fresh array on every refresh.   *)
(* Calls into Leaflet (addTo, remove, fitBounds, flyTo) return normally.   *)
(***************************************************************************)
EXTENDS Integers, Sequences, FiniteSets, TLC

\* ---------------------------------------------------------------- bounds
MaxStationId == 2      \* station ids are 1..MaxStationId
MaxStations == 2       \* longest station list
MaxLocation == 2       \* distinct user coordinates
MaxHandler == 2        \* distinct handler functions per callback prop
MaxRequests == 2       \* geometry requests started in one run
MaxTimers == 3         \* setTimeout callbacks pending at once

\* ------------------------------------------------------ program constants
DeselectDelay == 200   \* setTimeout(..., 200) of the popupclose listener
OpenDelay == 100       \* setTimeout(..., 100) of the auto-open
TimeStep == OpenDelay \div 2   \* granularity of the model's clock (ms)

StationIds == 1..MaxStationId
StationLists == UNION {[1..n -> StationIds] : n \in 0..MaxStations}
Locations == 1..MaxLocation
Handlers == 1..MaxHandler
UserPopup == 0 - 1     \* popup of the user-location marker ("Konumunuz")

VARIABLES
    props,              \* MapViewProps of the last committed render
    mapInstance,        \* "null" | "ready" | "removed" (useState mapInstance)
    refs,               \* onCreateRouteRef, onRemoveRouteRef, onReportStatusRef, onDeselectRef
    userMarker,         \* userMarkerRef.current # null
    markers,            \* layers of clusterGroupRef.current, in order
    popup,              \* the popup open on the map: 0 none, UserPopup, or a marker index
    isSwitchingPopup,   \* isSwitchingPopup.current
    timers,             \* pending setTimeout callbacks, oldest first
    clickHandlers,      \* 'click' listeners on the map (captured onLocationPicked)
    hasFittedRouteRef,  \* hasFittedRouteRef.current
    routeLayerRef,      \* routeLayerRef.current
    mapLayers,          \* route polylines attached to the map
    requests,           \* fetchRoute invocations suspended at their await
    nextReq,            \* number of requests started so far
    fitCount,           \* observer: fitBounds calls since routeDestination/showRoute last changed
    lastEvent,          \* observer: the task that ran last
    out,                \* observer: outward calls made by the task that ran last
    hist                \* observer: popup close/open history

vars == <<props, mapInstance, refs, userMarker, markers, popup, isSwitchingPopup,
          timers, clickHandlers, hasFittedRouteRef, routeLayerRef, mapLayers,
          requests, nextReq, fitCount, lastEvent, out, hist>>

popupVars == <<popup, isSwitchingPopup, timers, hist>>
routeVars == <<hasFittedRouteRef, routeLayerRef, mapLayers, requests, nextReq, fitCount>>

\* ---------------------------------------------------------------- helpers
Min(a, b) == IF a < b THEN a ELSE b

Ev(t, a) == [type |-> t, arg |-> a, stale |-> FALSE]
Call(s, a, h) == [sig |-> s, arg |-> a, via |-> h]

NoLayer == [kind |-> "none", origin |-> 0, dest |-> 0, req |-> 0]

RECURSIVE SeqFilterOut(_, _)
\* the sequence s without its first element equal to x
SeqFilterOut(s, x) ==
    IF s = <<>> THEN <<>>
    ELSE IF Head(s) = x THEN Tail(s)
    ELSE <<Head(s)>> \o SeqFilterOut(Tail(s), x)

\* ------------------------------------------------- popup lifecycle arbiter
\* The popup-related state as one value, so that a task can run several
\* listeners in sequence.
PS == [popup |-> popup, flag |-> isSwitchingPopup, timers |-> timers, hist |-> hist]

SetPS(ps) ==
    /\ popup' = ps.popup
    /\ isSwitchingPopup' = ps.flag
    /\ timers' = ps.timers
    /\ hist' = ps.hist

Timer(k, d, m) == [kind |-> k, remaining |-> d, marker |-> m]

NoHist == [closed |-> FALSE, age |-> 0, opened |-> FALSE, openedIn |-> FALSE,
           emitted |-> 0, early |-> FALSE, handler |-> FALSE]

\* observer: a close event starts a new debounce window
HistClose(h, handlerNow) ==
    [closed |-> TRUE, age |-> 0, opened |-> FALSE, openedIn |-> FALSE,
     emitted |-> 0, early |-> FALSE, handler |-> handlerNow]

\* observer: an open event; openedIn records that the first open after the
\* close came inside the debounce window
HistOpen(h) ==
    IF h.closed /\ ~h.opened
    THEN [h EXCEPT !.opened = TRUE, !.openedIn = (h.age < DeselectDelay)]
    ELSE h

\* observer: a deselection signal went out
HistEmit(h) ==
    [h EXCEPT !.emitted = Min(@ + 1, MaxTimers + 1),
              !.early = @ \/ (h.closed /\ h.age < DeselectDelay)]

\* map.on('popupclose'): set the flag and arm the 200ms timer
OnPopupClose(ps) ==
    [ps EXCEPT !.flag = TRUE,
               !.timers = Append(@, Timer("deselect", DeselectDelay, 0)),
               !.hist = HistClose(@, refs.onDeselect # 0)]

\* map.on('popupopen'): clear the flag (bindPopupButtons attaches listeners
\* that read the callback refs when clicked; it captures no handler)
OnPopupOpen(ps) ==
    [ps EXCEPT !.flag = FALSE, !.hist = HistOpen(@)]

\* Leaflet removes the open popup from the map and fires 'popupclose'
FirePopupClose(ps) ==
    IF ps.popup = 0 THEN ps ELSE OnPopupClose([ps EXCEPT !.popup = 0])

\* Leaflet opens a popup: every popup here has autoClose, so the one that is
\* open is closed first ('popupclose', then 'popupopen', in the same task)
FirePopupOpen(ps, target) ==
    OnPopupOpen([FirePopupClose(ps) EXCEPT !.popup = target])

\* the callback of the popupclose timer
DeselectTimeout(ps) ==
    IF ps.flag
    THEN [ps EXCEPT !.flag = FALSE,
                    !.hist = IF refs.onDeselect # 0 THEN HistEmit(@) ELSE @]
    ELSE ps

\* mutant: the timer callback does not look at isSwitchingPopup
DeselectCallsIgnoringFlag(ps) ==
    IF refs.onDeselect # 0
    THEN <<Call("onDeselect", 0, refs.onDeselect)>>
    ELSE <<>>

\* the onDeselect call of that callback
DeselectCalls(ps) ==
    IF ps.flag /\ refs.onDeselect # 0
    THEN <<Call("onDeselect", 0, refs.onDeselect)>>
    ELSE <<>>

\* the callback of the auto-open timer of a marker that is on the map:
\* if (!marker.isPopupOpen()) marker.openPopup();
AutoOpenTimeout(ps, t) ==
    IF ps.popup # t.marker THEN FirePopupOpen(ps, t.marker) ELSE ps

\* ------------------------------------------------------------ the effects
\* Each effect is given the props of the previous commit (props), the new
\* props np, the new mapInstance nm and the set ch of its dependencies whose
\* identity changed; React runs the cleanup of the previous run and then the
\* body when ch meets the effect's dependency list.
Ready(m) == m = "ready"

Touched(ch, deps) == ch \cap deps # {}

\* mutant: the picking cleanup leaves its listener on the map
PickingCleanupKeeps(hs) == hs

\* mutant: the refs keep the handlers of the first render
SyncRefsFirstRender(np, ch) == refs

\* useEffect: keep the callback refs at the latest handlers
SyncRefs(np, ch) ==
    IF Touched(ch, {"onCreateRoute", "onRemoveRoute", "onReportStatus", "onDeselect"})
    THEN [onCreateRoute |-> np.onCreateRoute, onRemoveRoute |-> np.onRemoveRoute,
          onReportStatus |-> np.onReportStatus, onDeselect |-> np.onDeselect]
    ELSE refs

\* useEffect "Picking Location": cleanup takes the previous run's listener
\* off the map, the body registers a listener that captured onLocationPicked
PickingCleanup(hs) ==
    IF Ready(mapInstance) /\ props.isPickingLocation
    THEN SeqFilterOut(hs, props.onLocationPicked)
    ELSE hs

PickingBody(hs, np, nm) ==
    IF Ready(nm) /\ np.isPickingLocation
    THEN Append(hs, np.onLocationPicked)
    ELSE hs

PickingEffect(np, nm, ch) ==
    IF Touched(ch, {"isPickingLocation", "onLocationPicked", "mapInstance"})
    THEN PickingBody(PickingCleanup(clickHandlers), np, nm)
    ELSE clickHandlers

\* useEffect "User Location Update"
UserLocationRuns(np, nm, ch) ==
    Touched(ch, {"userLocation", "mapInstance"}) /\ Ready(nm) /\ np.userLocation # 0

UserLocationCalls(np, nm, ch) ==
    IF UserLocationRuns(np, nm, ch) /\ ~userMarker /\ np.selectedStation = 0
    THEN <<Call("flyTo", np.userLocation, 0)>>
    ELSE <<>>

\* mutant: only the selected station gets the large icon
BuildMarkerSelectedOnly(station, np) ==
    LET isSelected == np.selectedStation # 0 /\ np.selectedStation = station
        isRouteActive == np.showRoute /\ np.routeDestination = station
    IN  [station |-> station,
         big |-> isSelected,
         autoOpen |-> isSelected,
         action |-> IF isRouteActive THEN "remove" ELSE "create",
         picking |-> np.isPickingLocation,
         onSelect |-> np.onStationSelect]

\* the marker built for one station by the stations.forEach callback
BuildMarker(station, np) ==
    LET isSelected == np.selectedStation # 0 /\ np.selectedStation = station
        isDestination == np.routeDestination # 0 /\ np.routeDestination = station
        isRouteActive == np.showRoute /\ isDestination
    IN  [station |-> station,
         big |-> isSelected \/ isDestination,
         autoOpen |-> isSelected,
         action |-> IF isRouteActive THEN "remove" ELSE "create",
         picking |-> np.isPickingLocation,
         onSelect |-> np.onStationSelect]

BuildMarkers(np) == [i \in 1..Len(np.stations) |-> BuildMarker(np.stations[i], np)]

\* mutant: isPickingLocation is missing from the dependency list
StationsRunsNoPickingDep(nm, ch) ==
    /\ Touched(ch, {"stations", "selectedStation", "routeDestination", "showRoute",
                    "mapInstance"})
    /\ Ready(nm)

StationsRuns(nm, ch) ==
    /\ Touched(ch, {"stations", "selectedStation", "routeDestination", "showRoute",
                    "isPickingLocation", "mapInstance"})
    /\ Ready(nm)

\* useEffect "Stations": clearLayers() and addLayers(markers)
StationsEffect(np, nm, ch) ==
    IF StationsRuns(nm, ch) THEN BuildMarkers(np) ELSE markers

RECURSIVE ArmAutoOpen(_, _, _)
\* the setTimeout(..., 100) of every selected marker, in forEach order
ArmAutoOpen(ts, ms, i) ==
    IF i > Len(ms) THEN ts
    ELSE ArmAutoOpen(IF ms[i].autoOpen THEN Append(ts, Timer("open", OpenDelay, i)) ELSE ts,
                     ms, i + 1)

RECURSIVE OffMap(_)
\* The markers of the previous set have left the map.  The code never clears
\* their auto-open timeouts, but such a callback finds its marker without a
\* map and openPopup() does nothing, so the pending entry is dropped here.
OffMap(ts) ==
    IF ts = <<>> THEN <<>>
    ELSE (IF Head(ts).kind = "open" THEN <<>> ELSE <<Head(ts)>>) \o OffMap(Tail(ts))

\* what the stations effect does to the popup state: clearLayers() removes
\* the markers, which closes a station popup that is open ('popupclose'),
\* and the new selected markers arm their auto-open timers
StationsPopup(ps, np, nm, ch) ==
    IF StationsRuns(nm, ch)
    THEN LET cleared == IF ps.popup >= 1 THEN FirePopupClose(ps) ELSE ps
         IN  [cleared EXCEPT !.timers = ArmAutoOpen(OffMap(@), BuildMarkers(np), 1)]
    ELSE ps

\* mutant: the fitted flag is also reset when the origin moves
FitResetOnOriginToo(ch) ==
    IF Touched(ch, {"routeDestination", "showRoute", "userLocation"})
    THEN FALSE ELSE hasFittedRouteRef

\* useEffect "Reset fitted state"
FitResetEffect(ch) ==
    IF Touched(ch, {"routeDestination", "showRoute"}) THEN FALSE ELSE hasFittedRouteRef

\* useEffect "Center map on selection"
CenterCalls(np, nm, ch) ==
    IF /\ Touched(ch, {"selectedStation", "showRoute", "isPickingLocation", "mapInstance"})
       /\ np.selectedStation # 0 /\ Ready(nm) /\ ~np.showRoute /\ ~np.isPickingLocation
    THEN <<Call("flyTo", np.selectedStation, 0)>>
    ELSE <<>>

\* ------------------------------------------------------ route synchronizer
RS == [ref |-> routeLayerRef, layers |-> mapLayers, reqs |-> requests, next |-> nextReq]

SetRS(rs) ==
    /\ routeLayerRef' = rs.ref
    /\ mapLayers' = rs.layers
    /\ requests' = rs.reqs
    /\ nextReq' = rs.next

\* routeLayerRef.current.remove(), guarded by if (routeLayerRef.current)
Detach(layers, ref) == IF ref # NoLayer THEN layers \ {ref} ELSE layers

\* the effect body's "Cleanup previous route immediately"
RouteBodyLayers(layers, ref) == Detach(layers, ref)

\* mutant: fetchRoute does not look at the picking flag
QualifiesIgnoringPicking(np) ==
    np.showRoute /\ np.userLocation # 0 /\ np.routeDestination # 0

\* the guard of fetchRoute
Qualifies(np) ==
    np.showRoute /\ np.userLocation # 0 /\ np.routeDestination # 0 /\ ~np.isPickingLocation

\* mutant: the teardown forgets the overlay (drops the reference, leaves the layer)
RouteTeardownKeepsLayer(layers, ref) == layers

\* the teardown's removal of the rendered overlay
RouteTeardownLayers(layers, ref) == Detach(layers, ref)

\* the function returned by the route effect: isCancelled = true for the run
\* that is torn down (its request, if it started one, is the newest), and the
\* overlay is removed
RouteTeardown(rs) ==
    IF Ready(mapInstance)
    THEN [rs EXCEPT !.reqs = {IF r.id = rs.next THEN [r EXCEPT !.cancelled = TRUE] ELSE r
                               : r \in @},
                    !.layers = RouteTeardownLayers(@, rs.ref),
                    !.ref = NoLayer]
    ELSE rs

\* the body of the route effect up to the await inside fetchRoute
RouteBody(rs, np, nm) ==
    IF ~Ready(nm) THEN rs
    ELSE LET cleaned == [rs EXCEPT !.layers = RouteBodyLayers(@, rs.ref), !.ref = NoLayer]
         IN  IF Qualifies(np)
             THEN [cleaned EXCEPT
                     !.reqs = @ \cup {[id |-> rs.next + 1, origin |-> np.userLocation,
                                       dest |-> np.routeDestination, cancelled |-> FALSE]},
                     !.next = @ + 1]
             ELSE cleaned

\* mutant: userLocation is missing from the dependency list
RouteEffectNoOriginDep(rs, np, nm, ch) ==
    IF Touched(ch, {"showRoute", "routeDestination", "isPickingLocation", "mapInstance"})
    THEN RouteBody(RouteTeardown(rs), np, nm)
    ELSE rs

\* useEffect "Handle Route Drawing with OSRM"
RouteEffect(rs, np, nm, ch) ==
    IF Touched(ch, {"showRoute", "userLocation", "routeDestination", "isPickingLocation",
                    "mapInstance"})
    THEN RouteBody(RouteTeardown(rs), np, nm)
    ELSE rs

\* ------------------------------------------------------------- the commit
\* A render with props np and mapInstance nm, and every effect it triggers.
Commit(np, nm, ch, ev) ==
    LET ps == StationsPopup(PS, np, nm, ch)
        rs == RouteEffect(RS, np, nm, ch)
        newRefs == SyncRefs(np, ch)
    IN  /\ Len(ps.timers) <= MaxTimers
        /\ rs.next <= MaxRequests
        /\ props' = np
        /\ mapInstance' = nm
        /\ refs' = newRefs
        /\ clickHandlers' = PickingEffect(np, nm, ch)
        /\ userMarker' = (userMarker \/ UserLocationRuns(np, nm, ch))
        /\ markers' = StationsEffect(np, nm, ch)
        /\ SetPS([ps EXCEPT !.hist.handler = @ /\ newRefs.onDeselect # 0])
        /\ hasFittedRouteRef' = FitResetEffect(ch)
        /\ SetRS(rs)
        /\ fitCount' = IF Touched(ch, {"routeDestination", "showRoute"}) THEN 0 ELSE fitCount
        /\ lastEvent' = ev
        /\ out' = UserLocationCalls(np, nm, ch) \o CenterCalls(np, nm, ch)

Mounted == mapInstance \in {"null", "ready"}

\* setMapInstance(map) of the initialisation effect is committed
MapReady ==
    /\ mapInstance = "null"
    /\ Commit(props, "ready", {"mapInstance"}, Ev("mapReady", 0))

SetStations ==
    \E s \in StationLists :
        /\ Mounted
        /\ Commit([props EXCEPT !.stations = s], mapInstance, {"stations"},
                  Ev("setStations", Len(s)))

SetProp(f, v) ==
    /\ Mounted
    /\ v # props[f]
    /\ Commit([props EXCEPT ![f] = v], mapInstance, {f}, Ev(f, 0))

SetUserLocation == \E v \in {0} \cup Locations : SetProp("userLocation", v)
SetSelectedStation == \E v \in {0} \cup StationIds : SetProp("selectedStation", v)
SetRouteDestination == \E v \in {0} \cup StationIds : SetProp("routeDestination", v)
SetShowRoute == \E v \in BOOLEAN : SetProp("showRoute", v)
SetPickingLocation == \E v \in BOOLEAN : SetProp("isPickingLocation", v)
SetOnStationSelect == \E v \in Handlers : SetProp("onStationSelect", v)
SetOnDeselect == \E v \in {0} \cup Handlers : SetProp("onDeselect", v)
SetOnLocationPicked == \E v \in {0} \cup Handlers : SetProp("onLocationPicked", v)
SetOnCreateRoute == \E v \in {0} \cup Handlers : SetProp("onCreateRoute", v)
SetOnRemoveRoute == \E v \in {0} \cup Handlers : SetProp("onRemoveRoute", v)
SetOnReportStatus == \E v \in {0} \cup Handlers : SetProp("onReportStatus", v)

\* the component unmounts: map.remove() takes every layer, the open popup
\* and every listener with it; the picking and route cleanups run
Unmount ==
    /\ Ready(mapInstance)
    /\ LET ps == FirePopupClose(PS)
           rs == RouteTeardown(RS)
       IN  /\ Len(ps.timers) <= MaxTimers
           /\ SetPS([ps EXCEPT !.timers = OffMap(@)])
           /\ SetRS([rs EXCEPT !.layers = {}])
    /\ mapInstance' = "removed"
    /\ markers' = <<>>
    /\ clickHandlers' = <<>>
    /\ userMarker' = FALSE
    /\ lastEvent' = Ev("unmount", 0)
    /\ out' = <<>>
    /\ UNCHANGED <<props, refs, hasFittedRouteRef, fitCount>>

\* ------------------------------------------------ fetchRoute after its await
Outcomes == {"ok", "empty", "error"}

\* mutant: the continuation never looks at isCancelled
DiscardedNever(r) == FALSE

\* if (isCancelled) return;
Discarded(r) == r.cancelled

\* mutant: the catch block only logs the error
ResolveOverlayNoFallback(r, outcome) ==
    CASE outcome = "ok" -> [kind |-> "solid", origin |-> r.origin, dest |-> r.dest, req |-> r.id]
      [] OTHER -> NoLayer

\* what the continuation draws: the solid polyline when data.routes is not
\* empty, the dashed straight line in the catch block (fetch or json() threw,
\* or routes[0] has no usable geometry), nothing when data.routes is empty
ResolveOverlay(r, outcome) ==
    CASE outcome = "ok" -> [kind |-> "solid", origin |-> r.origin, dest |-> r.dest, req |-> r.id]
      [] outcome = "error" -> [kind |-> "dashed", origin |-> r.origin, dest |-> r.dest, req |-> r.id]
      [] OTHER -> NoLayer

\* if (!hasFittedRouteRef.current) { fitBounds(...); hasFittedRouteRef.current = true; }
Fits(fitted) == ~fitted

FetchResolve ==
    \E r \in requests, outcome \in Outcomes :
        LET ov == IF Discarded(r) THEN NoLayer ELSE ResolveOverlay(r, outcome)
            fits == ov # NoLayer /\ Fits(hasFittedRouteRef)
        IN  /\ requests' = requests \ {r}
            /\ routeLayerRef' = IF ov # NoLayer THEN ov ELSE routeLayerRef
            /\ mapLayers' = IF ov # NoLayer THEN mapLayers \cup {ov} ELSE mapLayers
            /\ hasFittedRouteRef' = (hasFittedRouteRef \/ fits)
            /\ fitCount' = IF fits THEN fitCount + 1 ELSE fitCount
            /\ out' = IF fits THEN <<Call("fitBounds", r.id, 0)>> ELSE <<>>
            /\ lastEvent' = [type |-> outcome, arg |-> r.id, stale |-> r.cancelled]
            /\ UNCHANGED <<props, mapInstance, refs, userMarker, markers, popupVars,
                           clickHandlers, nextReq>>

\* ------------------------------------------------------- events and timers
\* marker.on('click', ...)
MarkerClickCalls(m) ==
    IF ~m.picking THEN <<Call("onStationSelect", m.station, m.onSelect)>> ELSE <<>>

MarkerClick ==
    \E i \in 1..Len(markers) :
        /\ Ready(mapInstance)
        /\ out' = MarkerClickCalls(markers[i])
        /\ lastEvent' = Ev("markerClick", i)
        /\ UNCHANGED <<props, mapInstance, refs, userMarker, markers, popupVars,
                       clickHandlers, routeVars>>

RECURSIVE MapClickCalls(_)
\* every 'click' listener on the map runs: if (onLocationPicked) onLocationPicked(...)
MapClickCalls(hs) ==
    IF hs = <<>> THEN <<>>
    ELSE (IF Head(hs) # 0 THEN <<Call("onLocationPicked", 0, Head(hs))>> ELSE <<>>)
         \o MapClickCalls(Tail(hs))

MapClick ==
    /\ Ready(mapInstance)
    /\ out' = MapClickCalls(clickHandlers)
    /\ lastEvent' = Ev("mapClick", 0)
    /\ UNCHANGED <<props, mapInstance, refs, userMarker, markers, popupVars,
                   clickHandlers, routeVars>>

\* the click listener bindPopupButtons puts on the route button; action is the
\* button's data-action attribute
RouteButtonCalls(action) ==
    IF action = "remove" /\ refs.onRemoveRoute # 0
    THEN <<Call("onRemoveRoute", 0, refs.onRemoveRoute)>>
    ELSE IF refs.onCreateRoute # 0
    THEN <<Call("onCreateRoute", 0, refs.onCreateRoute)>>
    ELSE <<>>

\* the click listener bindPopupButtons puts on the report button; stationId is
\* the button's data-station-id attribute (a station id is a non-empty string)
ReportButtonCalls(stationId) ==
    IF stationId # 0 /\ refs.onReportStatus # 0
    THEN <<Call("onReportStatus", stationId, refs.onReportStatus)>>
    ELSE <<>>

\* the user clicks a button of the station popup that is open; its content is
\* the popupContent of the marker it belongs to
PanelClick ==
    \E btn \in {"routeBtn", "reportBtn"} :
        /\ Ready(mapInstance)
        /\ popup >= 1
        /\ out' = IF btn = "routeBtn"
                  THEN RouteButtonCalls(markers[popup].action)
                  ELSE ReportButtonCalls(markers[popup].station)
        /\ lastEvent' = Ev(btn, popup)
        /\ UNCHANGED <<props, mapInstance, refs, userMarker, markers, popupVars,
                       clickHandlers, routeVars>>

PopupTargets == 1..Len(markers) \cup (IF userMarker THEN {UserPopup} ELSE {})

\* the user opens the popup of a marker
PopupOpenEvent ==
    \E target \in PopupTargets :
        /\ Ready(mapInstance)
        /\ target # popup
        /\ LET ps == FirePopupOpen(PS, target)
           IN  Len(ps.timers) <= MaxTimers /\ SetPS(ps)
        /\ lastEvent' = Ev("popupopen", target)
        /\ out' = <<>>
        /\ UNCHANGED <<props, mapInstance, refs, userMarker, markers, clickHandlers, routeVars>>

\* the user dismisses the open popup
PopupCloseEvent ==
    /\ Ready(mapInstance)
    /\ popup # 0
    /\ LET ps == FirePopupClose(PS)
       IN  Len(ps.timers) <= MaxTimers /\ SetPS(ps)
    /\ lastEvent' = Ev("popupclose", 0)
    /\ out' = <<>>
    /\ UNCHANGED <<props, mapInstance, refs, userMarker, markers, clickHandlers, routeVars>>

Without(ts, i) == SubSeq(ts, 1, i - 1) \o SubSeq(ts, i + 1, Len(ts))

\* a timer that is due runs; timers of one delay run in the order they were armed
TimerFire ==
    \E i \in 1..Len(timers) :
        LET t == timers[i]
            ps == [PS EXCEPT !.timers = Without(@, i)]
        IN  /\ t.remaining = 0
            /\ \A j \in 1..(i - 1) : timers[j].kind # t.kind \/ timers[j].remaining > 0
            /\ IF t.kind = "deselect"
               THEN SetPS(DeselectTimeout(ps)) /\ out' = DeselectCalls(ps)
               ELSE SetPS(AutoOpenTimeout(ps, t)) /\ out' = <<>>
            /\ lastEvent' = Ev(t.kind, 0)
            /\ UNCHANGED <<props, mapInstance, refs, userMarker, markers, clickHandlers,
                           routeVars>>

\* TimeStep milliseconds pass; a timer that is due runs before time moves on
Tick ==
    /\ \A i \in 1..Len(timers) : timers[i].remaining >= TimeStep
    /\ timers # <<>> \/ (hist.closed /\ hist.age < DeselectDelay)
    /\ timers' = [i \in 1..Len(timers) |-> [timers[i] EXCEPT !.remaining = @ - TimeStep]]
    /\ hist' = [hist EXCEPT !.age = Min(@ + TimeStep, DeselectDelay)]
    /\ lastEvent' = Ev("tick", 0)
    /\ out' = <<>>
    /\ UNCHANGED <<props, mapInstance, refs, userMarker, markers, popup, isSwitchingPopup,
                   clickHandlers, routeVars>>

\* ------------------------------------------------------------------- Init
\* The component is mounted with empty props and the effects of the first
\* commit have run with mapInstance still null: they return early, so any
\* props can be supplied before MapReady with the same result as mounting
\* with them.
Init ==
    /\ props = [stations |-> <<>>, userLocation |-> 0, selectedStation |-> 0,
                routeDestination |-> 0, onStationSelect |-> 1, onDeselect |-> 0,
                showRoute |-> FALSE, isPickingLocation |-> FALSE, onLocationPicked |-> 0,
                onCreateRoute |-> 0, onRemoveRoute |-> 0, onReportStatus |-> 0]
    /\ mapInstance = "null"
    /\ refs = [onCreateRoute |-> 0, onRemoveRoute |-> 0, onReportStatus |-> 0, onDeselect |-> 0]
    /\ userMarker = FALSE
    /\ markers = <<>>
    /\ popup = 0
    /\ isSwitchingPopup = FALSE
    /\ timers = <<>>
    /\ clickHandlers = <<>>
    /\ hasFittedRouteRef = FALSE
    /\ routeLayerRef = NoLayer
    /\ mapLayers = {}
    /\ requests = {}
    /\ nextReq = 0
    /\ fitCount = 0
    /\ lastEvent = Ev("mount", 0)
    /\ out = <<>>
    /\ hist = NoHist

\* ---------------------------------------------------------- specifications
\* routing: the route effect, its requests and the props it depends on
NextRoute ==
    \/ MapReady
    \/ SetUserLocation
    \/ SetRouteDestination
    \/ SetShowRoute
    \/ SetPickingLocation
    \/ FetchResolve
    \/ Unmount

SpecRoute == Init /\ [][NextRoute]_vars

\* popups: selection changes, marker-set rebuilds, popup events, timers and
\* the passage of time
NextPopup ==
    \/ MapReady
    \/ SetStations
    \/ SetSelectedStation
    \/ SetOnDeselect
    \/ PopupOpenEvent
    \/ PopupCloseEvent
    \/ TimerFire
    \/ Tick
    \/ Unmount

SpecPopup == Init /\ [][NextPopup]_vars

\* markers: the station reconciliation and marker clicks
NextMarkers ==
    \/ MapReady
    \/ SetStations
    \/ SetSelectedStation
    \/ SetRouteDestination
    \/ SetPickingLocation
    \/ SetShowRoute
    \/ MarkerClick
    \/ Unmount

SpecMarkers == Init /\ [][NextMarkers]_vars

\* picking mode: the map click listener and the handler it captured, with
\* renders that leave the picking effect alone
NextPicking ==
    \/ MapReady
    \/ SetStations
    \/ SetUserLocation
    \/ SetPickingLocation
    \/ SetOnLocationPicked
    \/ MapClick
    \/ Unmount

SpecPicking == Init /\ [][NextPicking]_vars

\* popup panel: the buttons of the open station popup and the handlers
\* behind the 'create' route button and the report button
NextPanel ==
    \/ MapReady
    \/ SetStations
    \/ SetOnCreateRoute
    \/ SetOnReportStatus
    \/ PopupOpenEvent
    \/ PanelClick
    \/ Unmount

SpecPanel == Init /\ [][NextPanel]_vars

\* route button: the route state its data-action is built from and the two
\* handlers its listener chooses between
NextRouteAction ==
    \/ MapReady
    \/ SetStations
    \/ SetRouteDestination
    \/ SetShowRoute
    \/ SetOnCreateRoute
    \/ SetOnRemoveRoute
    \/ PopupOpenEvent
    \/ PanelClick

SpecRouteAction == Init /\ [][NextRouteAction]_vars

\* station selection: the handler the marker click listeners call, with
\* renders that replace the handler and renders that rebuild the markers
NextSelect ==
    \/ MapReady
    \/ SetStations
    \/ SetSelectedStation
    \/ SetOnStationSelect
    \/ MarkerClick
    \/ Unmount

SpecSelect == Init /\ [][NextSelect]_vars

\* centering: the props the centering effect depends on, and the user
\* location, whose effect also moves the view
NextCenter ==
    \/ MapReady
    \/ SetUserLocation
    \/ SetSelectedStation
    \/ SetShowRoute
    \/ SetPickingLocation
    \/ Unmount

SpecCenter == Init /\ [][NextCenter]_vars

\* the component is mounted with a station selected
SelectAtMount == mapInstance = "null" /\ SetSelectedStation

\* a station-list refresh that still holds the selected station
RefreshStations ==
    /\ props.selectedStation # 0
    /\ SetStations
    /\ \E i \in 1..Len(props'.stations) : props'.stations[i] = props.selectedStation

\* rebuilds under one selection: the selection is made at mount and stays,
\* every later render rebuilds the marker set around it, the auto-open and
\* deselection timers run as time passes, and the user touches nothing
NextRebuild ==
    \/ SelectAtMount
    \/ SetOnDeselect
    \/ MapReady
    \/ RefreshStations
    \/ SetShowRoute
    \/ TimerFire
    \/ Tick

SpecRebuild == Init /\ [][NextRebuild]_vars

\* deselection: user opens and closes of the popups on the map, the
\* deselection timers and the passage of time
NextDeselect ==
    \/ MapReady
    \/ SetUserLocation
    \/ SetOnDeselect
    \/ PopupOpenEvent
    \/ PopupCloseEvent
    \/ TimerFire
    \/ Tick
    \/ Unmount

SpecDeselect == Init /\ [][NextDeselect]_vars

\* ------------------------------------------------------------ route claims
Resolved == lastEvent.type \in Outcomes

Idle ==
    \/ ~props.showRoute
    \/ props.userLocation = 0
    \/ props.routeDestination = 0
    \/ props.isPickingLocation

\* C1: at most one route overlay is attached to the map in every reachable
\* state, whatever the order of input changes, unmount and request
\* completions.
C1_SingleOverlay == Cardinality(mapLayers) <= 1

\* several requests were started, all have completed, and an overlay is shown
C1_Witness == nextReq >= 2 /\ requests = {} /\ Cardinality(mapLayers) = 1

\* C2: the completion of a request whose effect run was torn down attaches
\* no overlay and fits no view, with geometry or with a failure; a completion
\* that changes the overlay is that of the most recently started request.
C2_StaleDiscard ==
    [][\A r \in requests :
          r \notin requests' =>
              /\ r.cancelled => /\ mapLayers' = mapLayers
                                /\ routeLayerRef' = routeLayerRef
                                /\ hasFittedRouteRef' = hasFittedRouteRef
                                /\ out' = <<>>
              /\ mapLayers' # mapLayers => r.id = nextReq]_vars

\* a superseded request completed with geometry while the overlay of the
\* newest request was on the map
C2_Witness ==
    /\ Resolved /\ lastEvent.stale /\ lastEvent.type \in {"ok", "error"}
    /\ routeLayerRef # NoLayer /\ routeLayerRef.req = nextReq
    /\ lastEvent.arg < nextReq

\* C5: while routeDestination and showRoute stay unchanged there is at most
\* one fitBounds, however often the route effect re-runs for a new
\* userLocation or a picking toggle.
C5_FitOnce == fitCount <= 1

\* a live request rendered its overlay without fitting, the view having been
\* fitted by an earlier render for the same destination
C5_Witness ==
    /\ Resolved /\ ~lastEvent.stale /\ routeLayerRef.req = lastEvent.arg
    /\ out = <<>> /\ fitCount = 1

\* C6: a live request that completes with an empty result set ends with the
\* dashed straight-line overlay attached, as after a transport failure.
C6_NoRouteFallback ==
    (lastEvent.type = "empty" /\ ~lastEvent.stale) =>
        /\ routeLayerRef.kind = "dashed"
        /\ routeLayerRef.req = lastEvent.arg
        /\ routeLayerRef \in mapLayers

\* C8: no overlay is attached whenever showRoute is false, userLocation or
\* routeDestination is absent, or picking mode is on, also after requests of
\* earlier qualifying states complete.
C8_IdleNoOverlay == Idle => mapLayers = {}

\* a request started in a qualifying state completed with geometry in an
\* idle state
C8_Witness == Idle /\ Resolved /\ lastEvent.type # "empty" /\ lastEvent.stale /\ Mounted

RouteInputChanged ==
    lastEvent.type \in {"userLocation", "routeDestination", "showRoute", "isPickingLocation"}

\* C14: an overlay that is attached was computed from the userLocation and
\* routeDestination of the current props, and the state a change of
\* userLocation, routeDestination, showRoute or isPickingLocation leaves
\* behind has no overlay attached: the previous one went in the same step.
C14_NoStaleRoute ==
    /\ \A ov \in mapLayers :
          ov.origin = props.userLocation /\ ov.dest = props.routeDestination
    /\ RouteInputChanged => (mapLayers = {} /\ routeLayerRef = NoLayer)

\* the origin moved after the overlay of the first request was fitted: the
\* overlay is gone and the request for the new pair is still in flight
C14_Witness ==
    /\ lastEvent.type = "userLocation" /\ fitCount = 1
    /\ mapLayers = {}
    /\ requests = {[id |-> nextReq, origin |-> props.userLocation,
                    dest |-> props.routeDestination, cancelled |-> FALSE]}
    /\ nextReq = 2

Overlay(k, req) ==
    [kind |-> k, origin |-> props'.userLocation, dest |-> props'.routeDestination,
     req |-> req]

\* C15: in a qualifying state the completion of the request of the current
\* inputs leaves exactly one overlay attached, the solid one when it resolved
\* with geometry and the dashed one between the two raw coordinates when it
\* threw; while the inputs stay as they are, no later step takes an attached
\* overlay away.
C15_RenderUnderStableInputs ==
    [][/\ \A r \in requests :
             (r \notin requests' /\ ~r.cancelled) =>
                 /\ lastEvent'.type = "ok" => mapLayers' = {Overlay("solid", r.id)}
                 /\ lastEvent'.type = "error" => mapLayers' = {Overlay("dashed", r.id)}
       /\ (props' = props /\ mapInstance' = mapInstance) =>
             mapLayers \subseteq mapLayers']_vars

\* the request failed and the dashed overlay was drawn; a superseded request
\* completed afterwards and the overlay is still attached
C15_Witness ==
    /\ Resolved /\ lastEvent.stale /\ ~Idle
    /\ routeLayerRef.kind = "dashed" /\ mapLayers = {routeLayerRef}
    /\ routeLayerRef.origin = props.userLocation
    /\ routeLayerRef.dest = props.routeDestination

\* ------------------------------------------------------------ popup claims
\* hist follows the most recent close event: its age, whether an open event
\* came after it (and inside the window), and the deselection signals sent
\* since.
DeselectPending == \E i \in 1..Len(timers) : timers[i].kind = "deselect"

C4_TrueDeselection ==
    (hist.closed /\ hist.handler /\ ~hist.opened /\ hist.age = DeselectDelay
       /\ ~DeselectPending)
    => (hist.emitted = 1 /\ ~hist.early)

\* the counting half of C4 on its own, which the listeners do satisfy
C4_ExactlyOne ==
    (hist.closed /\ hist.handler /\ ~hist.opened /\ hist.age = DeselectDelay
       /\ ~DeselectPending)
    => hist.emitted = 1

\* the task that ran last called onDeselect
Deselected == \E k \in 1..Len(out) : out[k].sig = "onDeselect"

\* C16: once the component has unmounted no deselection signal is emitted,
\* also when a popup close armed the 200ms timer before the unmount and the
\* timer had not run yet.
C16_NoDeselectAfterUnmount == mapInstance = "removed" => ~Deselected

SelectionOnMap ==
    /\ props.selectedStation # 0
    /\ \E i \in 1..Len(markers) : markers[i].station = props.selectedStation

\* C17: while one station stays selected and every rebuild of the marker
\* set closes its popup and re-arms the 100ms auto-open, no deselection
\* signal is emitted, however the rebuilds are spaced in time.
C17_RebuildKeepsSelection == SelectionOnMap => ~Deselected

\* C19: when a deselection signal is emitted the most recent popup event
\* was a close, with no open event since; and at most one signal is emitted
\* per close event, so the signals never outnumber the closes.
C19_DeselectOnlyAfterClose ==
    /\ Deselected => (hist.closed /\ ~hist.opened)
    /\ hist.emitted <= 1

\* a popup was closed, opened again and closed again; one signal has been
\* emitted after the last close with nothing opened since, and the timer of
\* that close is still pending
C19_Witness ==
    /\ Deselected /\ lastEvent.type = "deselect"
    /\ hist.closed /\ ~hist.opened /\ hist.emitted = 1
    /\ popup = 0 /\ timers # <<>>

\* ----------------------------------------------------------- marker claims
Highlighted(st) ==
    \/ (props.selectedStation # 0 /\ st = props.selectedStation)
    \/ (props.routeDestination # 0 /\ st = props.routeDestination)

\* C7: after the station reconciliation every station of the list has exactly
\* one marker, large for the stations whose id is that of the selection or of
\* the destination and plain for every other one, so the number of large
\* markers is the number of such stations.
C7_MarkerCount ==
    Ready(mapInstance) =>
        /\ Len(markers) = Len(props.stations)
        /\ \A i \in 1..Len(markers) :
              /\ markers[i].station = props.stations[i]
              /\ markers[i].big = Highlighted(props.stations[i])
        /\ Cardinality({i \in 1..Len(markers) : markers[i].big})
             = Cardinality({i \in 1..Len(props.stations) : Highlighted(props.stations[i])})

\* the list holds a station that is both the selection and the destination,
\* highlighted by one marker, beside a plain station
C7_Witness ==
    /\ Ready(mapInstance)
    /\ props.selectedStation # 0 /\ props.selectedStation = props.routeDestination
    /\ \E i, j \in 1..Len(markers) :
          /\ markers[i].big /\ markers[i].station = props.routeDestination
          /\ ~markers[j].big

\* C9: a marker click in picking mode emits no station-selected; a marker
\* click outside picking mode emits station-selected for the station of that
\* marker, after any sequence of picking toggles.
C9_PickingInert ==
    lastEvent.type = "markerClick" =>
        IF props.isPickingLocation
        THEN out = <<>>
        ELSE /\ Len(out) = 1
             /\ out[1].sig = "onStationSelect"
             /\ out[1].arg = markers[lastEvent.arg].station

\* a marker was clicked in picking mode and nothing was emitted
C9_Witness ==
    lastEvent.type = "markerClick" /\ props.isPickingLocation /\ out = <<>>

\* C10: the map carries the picking click listener exactly while picking mode
\* is on, and that listener holds the current onLocationPicked; a map click
\* emits location-picked once in picking mode with a handler supplied, and
\* nothing otherwise.
C10_LocationPickedOnlyWhilePicking ==
    /\ clickHandlers = IF Ready(mapInstance) /\ props.isPickingLocation
                       THEN <<props.onLocationPicked>> ELSE <<>>
    /\ lastEvent.type = "mapClick" =>
          out = IF props.isPickingLocation /\ props.onLocationPicked # 0
                THEN <<Call("onLocationPicked", 0, props.onLocationPicked)>>
                ELSE <<>>

\* a map click in picking mode reached the handler that replaced the first one
C10_Witness ==
    /\ lastEvent.type = "mapClick" /\ props.isPickingLocation
    /\ props.onLocationPicked = MaxHandler
    /\ out = <<Call("onLocationPicked", 0, MaxHandler)>>

\* C12: a click on a station marker outside picking mode invokes the
\* onStationSelect handler the application supplied last, also when the
\* handler was replaced after the markers were built and no dependency of
\* the stations effect changed since.
C12_SelectCurrentHandler ==
    (lastEvent.type = "markerClick" /\ ~props.isPickingLocation) =>
        out = <<Call("onStationSelect", markers[lastEvent.arg].station,
                     props.onStationSelect)>>

\* what the listeners do instead: they call the handler of the render that
\* built their marker
C12_BuildTimeHandler ==
    (lastEvent.type = "markerClick" /\ ~props.isPickingLocation) =>
        out = <<Call("onStationSelect", markers[lastEvent.arg].station,
                     markers[lastEvent.arg].onSelect)>>

\* --------------------------------------------------------- centering claims
\* the task that ran last flew the view to the selected station (the user
\* location effect flies only while nothing is selected)
Recentered ==
    /\ props.selectedStation # 0
    /\ \E k \in 1..Len(out) : out[k].sig = "flyTo" /\ out[k].arg = props.selectedStation

\* C13: the view is flown to the selected station only by a render in which
\* selectedStation changed to a station while showRoute and isPickingLocation
\* were false (or by the first render with a map); a render that changes
\* showRoute, isPickingLocation or anything else with the selection
\* unchanged does not fly again.
C13_OneShotCentering ==
    Recentered =>
        /\ lastEvent.type \in {"selectedStation", "mapReady"}
        /\ ~props.showRoute /\ ~props.isPickingLocation

\* what the effect does: it flies on every render that changes one of its
\* dependencies and ends with a selection, no route shown and no picking
C13_CentersOnDependencyChange ==
    Recentered <=>
        /\ lastEvent.type \in {"selectedStation", "showRoute", "isPickingLocation", "mapReady"}
        /\ props.selectedStation # 0 /\ Ready(mapInstance)
        /\ ~props.showRoute /\ ~props.isPickingLocation

\* ------------------------------------------------------------ panel claims
PanelClicked == lastEvent.type \in {"routeBtn", "reportBtn"}

\* C11: a click on a route or report button of the open popup invokes the
\* handler the application supplied last for that callback, whatever handler
\* was in effect when the popup was built or opened; the report button calls
\* the current onReportStatus with the station of its popup.
C11_PanelCurrentHandler ==
    /\ PanelClicked =>
          \A k \in 1..Len(out) : out[k].via # 0 /\ out[k].via = props[out[k].sig]
    /\ lastEvent.type = "reportBtn" =>
          out = IF props.onReportStatus # 0
                THEN <<Call("onReportStatus", markers[lastEvent.arg].station,
                            props.onReportStatus)>>
                ELSE <<>>
    /\ (lastEvent.type = "routeBtn" /\ markers[lastEvent.arg].action = "create") =>
          out = IF props.onCreateRoute # 0
                THEN <<Call("onCreateRoute", 0, props.onCreateRoute)>>
                ELSE <<>>
    /\ (lastEvent.type = "routeBtn" /\ props.onRemoveRoute # 0
          /\ markers[lastEvent.arg].action = "remove") =>
          out = <<Call("onRemoveRoute", 0, props.onRemoveRoute)>>

\* a click on the report button reached the handler that replaced an earlier
\* one (handlers are supplied one at a time, the first render has none)
C11_Witness ==
    /\ lastEvent.type = "reportBtn"
    /\ props.onCreateRoute = 1
    /\ out = <<Call("onReportStatus", MaxStationId, MaxHandler)>>

\* C18: a click on a route button whose action is 'remove' never emits
\* create-route-requested and a click on a button whose action is 'create'
\* never emits remove-route-requested, whichever of onCreateRoute and
\* onRemoveRoute are supplied.
C18_RouteActionSemantics ==
    lastEvent.type = "routeBtn" =>
        \A k \in 1..Len(out) :
            /\ markers[lastEvent.arg].action = "remove" => out[k].sig # "onCreateRoute"
            /\ markers[lastEvent.arg].action = "create" => out[k].sig # "onRemoveRoute"

\* the half of C18 about 'create' buttons, which the listener does satisfy
C18_CreateNeverRemoves ==
    (lastEvent.type = "routeBtn" /\ markers[lastEvent.arg].action = "create") =>
        \A k \in 1..Len(out) : out[k].sig # "onRemoveRoute"

====
